---- MODULE Spec2Model ----
(***************************************************************************)
(* A model of the movie recommender: the TMDB discovery client             *)
(* (app/movies/tmdb.py), the DTDD topic classifier (app/movies/dtdd.py),   *)
(* the ranking function (app/movies/ranking.py), the watched store and     *)
(* the search endpoint (app/main.py).                                      *)
(*                                                                         *)
(* Numbers with a decimal point in the source (vote_average, min_vote)     *)
(* are kept in tenths: 8.5 is 85.  Python's None for an optional number    *)
(* is the record NoneNum; a present number n is Some(n).  An Optional[bool]*)
(* or Optional[str] is one of the strings "True", "False", "None" or the   *)
(* string itself.                                                          *)
(***************************************************************************)
EXTENDS Integers, Sequences, FiniteSets, TLC

VARIABLES
    \* ---- discover_movies_multi applied to one upstream (SpecDiscover)
    dm_pc,            \* "call" before the call, "returned" / "raised" after
    dm_upstream,      \* the upstream's answers: page number -> response
    dm_pages,         \* the caller's pages argument
    dm_out,           \* the list returned (all_results)
    dm_calls,         \* page numbers requested from upstream, in order
    \* ---- the watched store and the requests that change it
    watched_movies,   \* the rows of table watched_movies
    w_pc,             \* per request slot: "idle", "queried", "done"
    w_req,            \* per request slot: the request being handled
    w_exists,         \* per request slot: the handler's local "exists"
    \* ---- one request to /search: the form fields ...
    pc,               \* "start", "ladder", "annotate", "exclude", "done", "error"
    min_vote,
    include_actors,   \* the comma-separated names, as the list of its pieces
    exclude_actors,
    no_animal_harm,
    \* ... the handler's locals ...
    include_ids,
    exclude_ids,
    with_cast_csv,
    person_found,     \* ghost: what the person search answered for each name
    watched_ids,
    pages,
    attempts,
    attempt,          \* position in attempts of the iteration running or last run
    movies,
    results_note,
    \* ... and what the request did to its collaborators
    failed_call,      \* the call whose exception ended the request, or "none"
    attempts_run,     \* positions in attempts of the discover calls made
    first_enough,     \* first attempt that gave MIN_RESULTS_TARGET movies, or 0
    last_call,        \* the last discover_movies_multi call: its arguments,
                      \* what TMDB held for it, the pages it requested
    fewer,            \* the last attempt left fewer movies than the one before
    pre_annotation,   \* movies as the ladder left it (line 264)
    post_annotation,  \* movies as the annotation step left it (line 300)
    dtdd,             \* what is_animal_safe_v1 answers, per movie id
    dtdd_called,      \* ids is_animal_safe_v1 was called for, in order
    credits,          \* what get_movie_cast_ids answers, per movie id
    credits_called,   \* ids get_movie_cast_ids was called for, in order
    \* ---- the classification of one /media payload (SpecClassify)
    cl_pc,            \* "call" before the call, "done" after
    cl_media,         \* the payload dtdd_media returned
    cl_dog_dies,      \* what dog_dies_from_media returns for it
    cl_safe,          \* what is_animal_safe_v1 then returns
    \* ---- the annotator's process-lifetime state (SpecAnnotator)
    DTDD_API_KEY,     \* "" when the environment does not set it
    now,              \* time.time(), in seconds since the process started
    ticks,            \* how often the clock was advanced between calls
    search_cache,     \* _search_cache: key -> (ts, payload)
    media_cache,      \* _media_cache: item id -> (ts, payload)
    net_calls,        \* how many requests were sent to DTDD
    an_last           \* the last call into dtdd.py: what it gave, what it sent

discVars == <<dm_pc, dm_upstream, dm_pages, dm_out, dm_calls>>

storeVars == <<watched_movies, w_pc, w_req, w_exists>>

formVars == <<min_vote, include_actors, exclude_actors, no_animal_harm>>

searchVars ==
    <<pc, formVars, include_ids, exclude_ids, with_cast_csv, person_found,
      watched_ids,
      pages, attempts, attempt, movies, results_note, failed_call,
      attempts_run, first_enough, last_call, fewer, pre_annotation,
      post_annotation,
      dtdd, dtdd_called, credits, credits_called>>

classVars == <<cl_pc, cl_media, cl_dog_dies, cl_safe>>

annVars ==
    <<DTDD_API_KEY, now, ticks, search_cache, media_cache, net_calls, an_last>>

vars == <<discVars, storeVars, searchVars, classVars, annVars>>

\* what a step of one component leaves alone
notDiscover == <<storeVars, searchVars, classVars, annVars>>

notStore == <<discVars, searchVars, classVars, annVars>>

notSearch == <<discVars, storeVars, classVars, annVars>>

notClassify == <<discVars, storeVars, searchVars, annVars>>

notAnnotator == <<discVars, storeVars, searchVars, classVars>>

-----------------------------------------------------------------------------
(* Generic helpers *)

Min(a, b) == IF a < b THEN a ELSE b

Max(a, b) == IF a > b THEN a ELSE b

Range(s) == {s[i] : i \in 1..Len(s)}

\* all sequences over S of length at most n
SeqsUpTo(S, n) == UNION {[1..k -> S] : k \in 0..n}

\* s[a..b], empty when a > b (Python's s[a-1:b])
Slice(s, a, b) == [i \in 1..Max(0, Min(b, Len(s)) - a + 1) |-> s[a + i - 1]]

NoneNum == [present |-> FALSE, v |-> 0]

Some(n) == [present |-> TRUE, v |-> n]

\* the ids a..b in increasing order
Ids(a, b) == [i \in 1..(b - a + 1) |-> a + i - 1]

-----------------------------------------------------------------------------
(* The bounds of the model *)

\* request slots of the watched endpoints (requests that may overlap)
NumProcs == 2

\* catalog ids the watched endpoints are called with: 1..MaxWatchId
MaxWatchId == 2

\* the largest primary key the model lets the database hand out
MaxRowId == 4

\* upstream pages of a discover_movies_multi call in SpecDiscover
MaxDiscPages == 2

\* the catalog of the search model holds the movies 1..MaxCatalogId
MaxCatalogId == 27

\* how often the clock is advanced between the calls into dtdd.py
MaxTicks == 1

\* the requests DTDD receives in one run of the annotator model
MaxNetCalls == 2

Procs == 1..NumProcs

WatchIds == 1..MaxWatchId

WatchTitles == {"A", "B"}

-----------------------------------------------------------------------------
(* Movie records: the dicts of TMDB's JSON, with the two keys the search   *)
(* handler adds (dtdd_dog_safe, is_watched; "absent" until it sets them).  *)
(* int_id is FALSE for a dict whose "id" is missing or not an int.         *)
(* release_year is the year of release_date, 0 when the date is missing.   *)

TmdbMovie(id, title, vote_average, vote_count, popularity, release_year) ==
    [id |-> id, int_id |-> TRUE, title |-> title,
     vote_average |-> vote_average, vote_count |-> vote_count,
     popularity |-> popularity, release_year |-> release_year,
     dtdd_dog_safe |-> "absent", is_watched |-> "absent"]

\* a result whose "id" is not an int (isinstance(mid, int) is False)
NoIdMovie(title) ==
    [TmdbMovie(0, title, 0, 0, 0, 0) EXCEPT !.int_id = FALSE]

\* an upstream answer to one discover_movies call
OkPage(results) == [ok |-> TRUE, results |-> results]

\* raise_for_status() raises
FailedPage == [ok |-> FALSE, results |-> <<>>]

\* the upstream's answer for page p: past its last page, TMDB returns no results
Response(upstream, p) ==
    IF p \in DOMAIN upstream THEN upstream[p] ELSE OkPage(<<>>)

-----------------------------------------------------------------------------
(* app/movies/tmdb.py: discover_movies_multi *)

PAGES_CAP == 20

\* mutant: the count is floored at 1 and not capped
ClampPagesUncapped(n) == Max(1, n)

\* pages = max(1, min(int(pages), 20))
ClampPages(n) == Max(1, Min(n, PAGES_CAP))

\* mutant: the seen_ids test is dropped
RECURSIVE MergeNoSeen(_, _)
MergeNoSeen(acc, results) ==
    IF results = <<>> THEN acc
    ELSE LET m == Head(results) IN
         IF ~m.int_id THEN MergeNoSeen(acc, Tail(results))
         ELSE MergeNoSeen([all_results |-> Append(acc.all_results, m),
                           seen_ids |-> acc.seen_ids \cup {m.id}],
                          Tail(results))

\* the inner loop over one page's results: skip non-int ids and ids already
\* seen, else record the id and append the movie
RECURSIVE MergeResults(_, _)
MergeResults(acc, results) ==
    IF results = <<>> THEN acc
    ELSE LET m == Head(results) IN
         IF ~m.int_id THEN MergeResults(acc, Tail(results))
         ELSE IF m.id \in acc.seen_ids THEN MergeResults(acc, Tail(results))
         ELSE MergeResults([all_results |-> Append(acc.all_results, m),
                            seen_ids |-> acc.seen_ids \cup {m.id}],
                           Tail(results))

\* mutant: a page whose request fails is skipped and the loop goes on
RECURSIVE DiscoverLoopSkipsFailed(_, _, _, _, _)
DiscoverLoopSkipsFailed(upstream, page, last, acc, calls) ==
    IF page > last
    THEN [raised |-> FALSE, all_results |-> acc.all_results, calls |-> calls]
    ELSE LET data == Response(upstream, page)
             called == Append(calls, page)
         IN IF ~data.ok
            THEN DiscoverLoopSkipsFailed(upstream, page + 1, last, acc, called)
            ELSE IF data.results = <<>>
            THEN [raised |-> FALSE, all_results |-> acc.all_results,
                  calls |-> called]
            ELSE DiscoverLoopSkipsFailed(upstream, page + 1, last,
                                         MergeResults(acc, data.results), called)

\* the loop over pages page..last; calls is the list of pages requested so far
RECURSIVE DiscoverLoop(_, _, _, _, _)
DiscoverLoop(upstream, page, last, acc, calls) ==
    IF page > last
    THEN [raised |-> FALSE, all_results |-> acc.all_results, calls |-> calls]
    ELSE LET data == Response(upstream, page)
             called == Append(calls, page)
         IN IF ~data.ok
            THEN [raised |-> TRUE, all_results |-> <<>>, calls |-> called]
            ELSE IF data.results = <<>>
            THEN [raised |-> FALSE, all_results |-> acc.all_results,
                  calls |-> called]
            ELSE DiscoverLoop(upstream, page + 1, last,
                              MergeResults(acc, data.results), called)

discover_movies_multi(upstream, n) ==
    DiscoverLoop(upstream, 1, ClampPages(n),
                 [all_results |-> <<>>, seen_ids |-> {}], <<>>)

-----------------------------------------------------------------------------
(* app/models.py: WatchedMovie; app/main.py: mark_watched, remove_watched *)

USER_ID == 1

\* the primary key the database gives a new row: one more than the largest
NextRowId(rows) ==
    IF rows = {} THEN 1
    ELSE 1 + (CHOOSE n \in {r.id : r \in rows} :
                 \A r \in rows : r.id <= n)

WatchedMovie(id, user_id, tmdb_id, title) ==
    [id |-> id, user_id |-> user_id, tmdb_id |-> tmdb_id, title |-> title]

\* db.query(WatchedMovie).filter(user_id == 1, tmdb_id == tmdb_id)
RowsOf(rows, tmdb_id) ==
    {r \in rows : r.user_id = USER_ID /\ r.tmdb_id = tmdb_id}

\* mutant: the row is added whatever the existence query found
InsertAlways(rows, req, exists) ==
    rows \cup {WatchedMovie(NextRowId(rows), USER_ID, req.tmdb_id, req.title)}

\* if not exists: db.add(WatchedMovie(...)); db.commit()
InsertIfNew(rows, req, exists) ==
    IF ~exists
    THEN rows \cup
           {WatchedMovie(NextRowId(rows), USER_ID, req.tmdb_id, req.title)}
    ELSE rows

\* the query .delete() of remove_watched: every matching row goes
DeleteRows(rows, tmdb_id) == rows \ RowsOf(rows, tmdb_id)

-----------------------------------------------------------------------------
(* app/movies/ranking.py: rank_movies.  The score is kept times 3000, so   *)
(* that its four weights are integers: 0.55 per rating point is 165 per    *)
(* tenth, 0.30 and 0.12 per decade are 900 and 360, 0.03 / 15 per year of  *)
(* recency is 6.                                                           *)

current_year == 2026

\* log10 of a power of ten; the model's vote counts and popularities are
\* one less than a power of ten
RECURSIVE Log10(_)
Log10(n) == IF n < 10 THEN 0 ELSE 1 + Log10(n \div 10)

score(m) ==
    LET year == m.release_year
        recency_boost == Max(0, year - (current_year - 15))
    IN 165 * m.vote_average + 900 * Log10(m.vote_count + 1)
         + 360 * Log10(m.popularity + 1) + 6 * recency_boost

\* mutant: m goes before the movies of its own score
RECURSIVE InsertBeforeTies(_, _)
InsertBeforeTies(sorted, m) ==
    IF sorted = <<>> THEN <<m>>
    ELSE IF score(Head(sorted)) > score(m)
         THEN <<Head(sorted)>> \o InsertBeforeTies(Tail(sorted), m)
         ELSE <<m>> \o sorted

\* m goes behind every movie that scores at least as much
RECURSIVE InsertByScore(_, _)
InsertByScore(sorted, m) ==
    IF sorted = <<>> THEN <<m>>
    ELSE IF score(Head(sorted)) >= score(m)
         THEN <<Head(sorted)>> \o InsertByScore(Tail(sorted), m)
         ELSE <<m>> \o sorted

RECURSIVE SortedInto(_, _)
SortedInto(sorted, ms) ==
    IF ms = <<>> THEN sorted
    ELSE SortedInto(InsertByScore(sorted, Head(ms)), Tail(ms))

\* sorted(movies, key=score, reverse=True): descending and stable
rank_movies(ms) == SortedInto(<<>>, ms)

-----------------------------------------------------------------------------
(* app/movies/dtdd.py: dog_dies_from_media and the end of                  *)
(* is_animal_safe_v1.  A JSON value is a record of its Python type and a   *)
(* number (a bool's is 0 or 1); a string is the sequence of its characters.*)

PyNone == [t |-> "NoneType", v |-> 0]

PyBool(b) == [t |-> "bool", v |-> IF b THEN 1 ELSE 0]

PyInt(n) == [t |-> "int", v |-> n]

PyFloat(n) == [t |-> "float", v |-> n]

\* isinstance(x, bool)
IsBool(x) == x.t = "bool"

\* isinstance(x, int): bool is a subclass of int
IsInt(x) == x.t \in {"int", "bool"}

\* str.lower() on the letters the model's topic names hold
LowerChar(c) ==
    CASE c = "A" -> "a"
      [] c = "D" -> "d"
      [] OTHER -> c

Lower(str) == [i \in 1..Len(str) |-> LowerChar(str[i])]

\* str.strip()
RECURSIVE LStrip(_)
LStrip(str) ==
    IF str # <<>> /\ Head(str) = " " THEN LStrip(Tail(str)) ELSE str

RECURSIVE RStrip(_)
RStrip(str) ==
    IF str # <<>> /\ str[Len(str)] = " "
    THEN RStrip(SubSeq(str, 1, Len(str) - 1)) ELSE str

StripStr(str) == RStrip(LStrip(str))

\* sub in str
Contains(str, sub) ==
    \E i \in 0..(Len(str) - Len(sub)) : SubSeq(str, i + 1, i + Len(sub)) = sub

DOES_THE_DOG_DIE ==
    <<"d", "o", "e", "s", " ", "t", "h", "e", " ", "d", "o", "g", " ",
      "d", "i", "e">>

A_DOG_DIES == <<"a", " ", "d", "o", "g", " ", "d", "i", "e", "s">>

DOG_DIE == <<"d", "o", "g", " ", "d", "i", "e">>

LEGACY_ID == 25

\* is_dog_dies_topic
IsDogDiesTopic(topic) ==
    LET does_name == Lower(StripStr(topic.doesName))
        topic_name == Lower(StripStr(topic.name))
    IN \/ (topic.legacyId.t # "NoneType" /\ topic.legacyId.v = LEGACY_ID)
       \/ Contains(does_name, DOES_THE_DOG_DIE)
       \/ topic_name = A_DOG_DIES
       \/ Contains(topic_name, DOG_DIE)

\* mutant: the comparison is turned round
VotesSayNo(yes_sum, no_sum) == no_sum > yes_sum

\* return yes_sum > no_sum
VotesSayYes(yes_sum, no_sum) == yes_sum > no_sum

\* mutant: the vote totals are read first, the isYes flag after them
EntryVerdictVotesFirst(entry) ==
    IF IsInt(entry.yesSum) /\ IsInt(entry.noSum)
          /\ ~(entry.yesSum.v = 0 /\ entry.noSum.v = 0)
    THEN (IF VotesSayYes(entry.yesSum.v, entry.noSum.v) THEN "True" ELSE "False")
    ELSE IF IsInt(entry.isYes)
    THEN (IF entry.isYes.v # 0 THEN "True" ELSE "False")
    ELSE "None"

\* mutant: the test for two zero totals is dropped
EntryVerdictNoZeroTest(entry) ==
    IF IsBool(entry.isYes) THEN (IF entry.isYes.v = 1 THEN "True" ELSE "False")
    ELSE IF IsInt(entry.isYes)
    THEN (IF entry.isYes.v # 0 THEN "True" ELSE "False")
    ELSE IF IsInt(entry.yesSum) /\ IsInt(entry.noSum)
    THEN (IF VotesSayYes(entry.yesSum.v, entry.noSum.v) THEN "True" ELSE "False")
    ELSE "None"

\* the body of "if is_dog_dies_topic": True, False or None
EntryVerdict(entry) ==
    IF IsBool(entry.isYes) THEN (IF entry.isYes.v = 1 THEN "True" ELSE "False")
    ELSE IF IsInt(entry.isYes)
    THEN (IF entry.isYes.v # 0 THEN "True" ELSE "False")
    ELSE IF IsInt(entry.yesSum) /\ IsInt(entry.noSum)
    THEN (IF entry.yesSum.v = 0 /\ entry.noSum.v = 0 THEN "None"
          ELSE IF VotesSayYes(entry.yesSum.v, entry.noSum.v) THEN "True"
          ELSE "False")
    ELSE "None"

\* the loop over topicItemStats: the first dog-dies entry decides
RECURSIVE ScanStats(_)
ScanStats(stats) ==
    IF stats = <<>> THEN "None"
    ELSE IF IsDogDiesTopic(Head(stats).topic) THEN EntryVerdict(Head(stats))
    ELSE ScanStats(Tail(stats))

\* a /media payload: present is FALSE for None or an empty object
Media(stats) == [present |-> TRUE, stats |-> stats]

NoMedia == [present |-> FALSE, stats |-> <<>>]

dog_dies_from_media(media_payload) ==
    IF ~media_payload.present THEN "None" ELSE ScanStats(media_payload.stats)

\* the last lines of is_animal_safe_v1: None stays None, else dog_dies is False
SafeFromDogDies(dog_dies) ==
    IF dog_dies = "None" THEN "None"
    ELSE IF dog_dies = "False" THEN "True" ELSE "False"

-----------------------------------------------------------------------------
(* app/movies/dtdd.py: the two caches, the three cached calls and          *)
(* is_animal_safe_v1.  A cache is a function from its keys to (ts,         *)
(* payload); time.time() is a number of seconds.  net is what DTDD would   *)
(* answer if the call were made, and how long the call takes.  Each of the *)
(* three calls returns what it returned or raised, the cache as it left    *)
(* it, the network calls it made and the clock at its end.                 *)

TTL_SECONDS == 7 * 24 * 60 * 60

\* mutant: an entry of exactly TTL_SECONDS still counts as fresh
FreshInclusive(ts, clock) == (clock - ts) <= TTL_SECONDS

\* _fresh(ts), with time.time() as clock
fresh(ts, clock) == (clock - ts) < TTL_SECONDS

\* Python's None as a payload
NonePayload == [none |-> TRUE, truthy |-> FALSE, items |-> <<>>]

\* a /dddsearch payload; {} is falsy
SearchPayload(items) == [none |-> FALSE, truthy |-> TRUE, items |-> items]

EmptyObject == [none |-> FALSE, truthy |-> FALSE, items |-> <<>>]

\* cached = cache.get(key); cached and _fresh(cached[0])
CacheHit(cache, key, clock) ==
    key \in DOMAIN cache /\ fresh(cache[key].ts, clock)

\* cache[key] = (time.time(), payload)
CachePut(cache, key, ts, payload) ==
    [k \in DOMAIN cache \cup {key} |->
        IF k = key THEN [ts |-> ts, payload |-> payload] ELSE cache[k]]

\* a call that returns without the network
Returned(payload, cache, clock) ==
    [raised |-> FALSE, payload |-> payload, cache |-> cache, calls |-> <<>>,
     clock |-> clock]

\* a request sent to DTDD: its path, what stands for its argument, and
\* whether it was answered
NetCall(name, key, ok) == [name |-> name, key |-> key, ok |-> ok]

\* mutant: a failed request leaves an entry without payload under the key
FetchedMarksFailure(name, key, cache, payload_none, clock, net) ==
    IF net.ok
    THEN [raised |-> FALSE, payload |-> net.payload,
          cache |-> CachePut(cache, key, clock + net.took, net.payload),
          calls |-> <<NetCall(name, key, TRUE)>>,
          clock |-> clock + net.took]
    ELSE [raised |-> TRUE, payload |-> payload_none,
          cache |-> CachePut(cache, key, clock + net.took, payload_none),
          calls |-> <<NetCall(name, key, FALSE)>>,
          clock |-> clock + net.took]

\* requests.get, raise_for_status, r.json() and the write to the cache
Fetched(name, key, cache, payload_none, clock, net) ==
    IF net.ok
    THEN [raised |-> FALSE, payload |-> net.payload,
          cache |-> CachePut(cache, key, clock + net.took, net.payload),
          calls |-> <<NetCall(name, key, TRUE)>>,
          clock |-> clock + net.took]
    ELSE [raised |-> TRUE, payload |-> payload_none, cache |-> cache,
          calls |-> <<NetCall(name, key, FALSE)>>,
          clock |-> clock + net.took]

\* mutant: the test of the api key is dropped
dtdd_search_any_key(api_key, query, cache, clock, net) ==
    LET q == Lower(StripStr(query))
    IN IF q = <<>> THEN Returned(NonePayload, cache, clock)
       ELSE IF CacheHit(cache, q, clock)
       THEN Returned(cache[q].payload, cache, clock)
       ELSE Fetched("dddsearch?q", q, cache, NonePayload, clock, net)

dtdd_search(api_key, query, cache, clock, net) ==
    LET q == Lower(StripStr(query))
    IN IF api_key = "" THEN Returned(NonePayload, cache, clock)
       ELSE IF q = <<>> THEN Returned(NonePayload, cache, clock)
       ELSE IF CacheHit(cache, q, clock)
       THEN Returned(cache[q].payload, cache, clock)
       ELSE Fetched("dddsearch?q", q, cache, NonePayload, clock, net)

IMDB_PREFIX == <<"i", "m", "d", "b", ":">>

dtdd_search_imdb(api_key, imdb_id, cache, clock, net) ==
    LET stripped == StripStr(imdb_id)
        cache_key == IMDB_PREFIX \o Lower(stripped)
    IN IF api_key = "" THEN Returned(NonePayload, cache, clock)
       ELSE IF stripped = <<>> THEN Returned(NonePayload, cache, clock)
       ELSE IF CacheHit(cache, cache_key, clock)
       THEN Returned(cache[cache_key].payload, cache, clock)
       ELSE Fetched("dddsearch?imdb", cache_key, cache, NonePayload, clock, net)

dtdd_media(api_key, item_id, cache, clock, net) ==
    IF api_key = "" THEN Returned(NoMedia, cache, clock)
    ELSE IF CacheHit(cache, item_id, clock)
    THEN Returned(cache[item_id].payload, cache, clock)
    ELSE Fetched("media", item_id, cache, NoMedia, clock, net)

\* an item of a /dddsearch payload; tmdbId and releaseYear are 0 when missing
DtddItem(id, tmdbId, releaseYear) ==
    [id |-> id, tmdbId |-> tmdbId, releaseYear |-> releaseYear]

NoItem == DtddItem(0, 0, 0)

\* tmdb_id and year are NoneNum or Some(n)
pick_best_item(items, tmdb_id, year) ==
    LET by_tmdb == {i \in 1..Len(items) :
                      tmdb_id.present /\ items[i].tmdbId = tmdb_id.v}
        by_year == {i \in 1..Len(items) :
                      year.present /\ items[i].releaseYear = year.v}
        first(S) == CHOOSE i \in S : \A j \in S : i <= j
    IN IF items = <<>> THEN NoItem
       ELSE IF by_tmdb # {} THEN items[first(by_tmdb)]
       ELSE IF by_year # {} THEN items[first(by_year)]
       ELSE items[1]

\* the year of release_date, None when the date is missing
get_release_year(tmdb_movie) ==
    IF tmdb_movie.release_year = 0 THEN NoneNum
    ELSE Some(tmdb_movie.release_year)

\* what is_animal_safe_v1 returned or raised, and the caches, calls and
\* clock it left
Classified(raised, safe, sc, mc, calls, clock) ==
    [raised |-> raised, safe |-> safe, search_cache |-> sc,
     media_cache |-> mc, calls |-> calls, clock |-> clock]

\* snet and mnet are DTDD's answers to the search and to the media call
is_animal_safe_v1(api_key, tmdb_movie, imdb_id, sc, mc, clock, snet, mnet) ==
    LET title == StripStr(tmdb_movie.title)
        tmdb_id == IF tmdb_movie.int_id THEN Some(tmdb_movie.id) ELSE NoneNum
        year == get_release_year(tmdb_movie)
        s == IF imdb_id # <<>>
             THEN dtdd_search_imdb(api_key, imdb_id, sc, clock, snet)
             ELSE dtdd_search(api_key, title, sc, clock, snet)
        best == pick_best_item(s.payload.items, tmdb_id, year)
        m == dtdd_media(api_key, best.id, mc, s.clock, mnet)
    IN IF title = <<>>
       THEN Classified(FALSE, "None", sc, mc, <<>>, clock)
       ELSE IF s.raised
       THEN Classified(TRUE, "None", s.cache, mc, s.calls, s.clock)
       ELSE IF ~s.payload.truthy \/ best = NoItem \/ best.id = 0
       THEN Classified(FALSE, "None", s.cache, mc, s.calls, s.clock)
       ELSE IF m.raised
       THEN Classified(TRUE, "None", s.cache, m.cache, s.calls \o m.calls,
                       m.clock)
       ELSE Classified(FALSE, SafeFromDogDies(dog_dies_from_media(m.payload)),
                       s.cache, m.cache, s.calls \o m.calls, m.clock)

-----------------------------------------------------------------------------
(* app/main.py: search, the pieces of the handler *)

MIN_RESULTS_TARGET == 20

MAX_DTDD_CHECK == 25

\* str.strip() on the pieces the model's forms hold
Strip(piece) ==
    CASE piece = " a " -> "a"
      [] piece = " x" -> "x"
      [] piece = "  " -> ""
      [] OTHER -> piece

\* [x.strip() for x in s.split(",") if x.strip()], [] for no input
split_names(pieces) ==
    SelectSeq([i \in 1..Len(pieces) |-> Strip(pieces[i])],
              LAMBDA x : x # "")

\* the id TMDB's person search lists first for a name
PersonId(name) ==
    CASE name = "a" -> 101
      [] name = "x" -> 201
      [] OTHER -> 301

\* search_person_id for each name under the upstream's answers ("found",
\* "none" or "raise" per name), then the ids that are not None
ResolveNames(names, answers) ==
    LET found == SelectSeq([i \in 1..Len(names) |-> i],
                           LAMBDA i : answers[i] = "found")
    IN [raised |-> \E i \in 1..Len(names) : answers[i] = "raise",
        ids |-> [k \in 1..Len(found) |-> PersonId(names[found[k]])]]

\* mutant: the joined ids are sent as the filter even when there are none
WithCastCsvAlways(ids) == [present |-> TRUE, ids |-> ids]

\* ",".join(str(i) for i in include_ids) if include_ids else None
WithCastCsv(ids) == [present |-> ids # <<>>, ids |-> ids]

\* {w.tmdb_id for w in the rows of user 1}
WatchedIds(rows) == {r.tmdb_id : r \in {w \in rows : w.user_id = USER_ID}}

\* pages = 5, and 10 if min_vote is not None and min_vote >= 8.0
PagesFor(mv) == IF mv.present /\ mv.v >= 80 THEN 10 ELSE 5

Attempt(mv, mvc, note) == [mv |-> mv, mvc |-> mvc, note |-> note]

\* mutant: the two attempts at a lower rating are never added
AttemptsWithoutRatingFallback(mv) ==
    <<Attempt(mv, 200, "None"),
      Attempt(mv, 100, "Too few results - lowered minimum review count to 100."),
      Attempt(mv, 50, "Too few results - lowered minimum review count to 50.")>>

\* the attempts list, strict to loose
AttemptsFor(mv) ==
    <<Attempt(mv, 200, "None"),
      Attempt(mv, 100, "Too few results - lowered minimum review count to 100."),
      Attempt(mv, 50, "Too few results - lowered minimum review count to 50.")>>
    \o (IF mv.present /\ mv.v >= 85
        THEN <<Attempt(Some(80), 100,
                 "Too few results at 8.5+ - showing 8.0+ with at least 100 reviews."),
               Attempt(Some(75), 100,
                 "Still too few - showing 7.5+ with at least 100 reviews.")>>
        ELSE <<>>)

\* mutant: what the attempt found is added to what the attempts before it
\* had left
MergedWithEarlier(found, previous) ==
    previous \o SelectSeq(found, LAMBDA m :
                    \A i \in 1..Len(previous) : previous[i].id # m.id)

\* movies = discover_movies_multi(...): the assignment replaces the list of
\* the attempt before
MoviesAfterAttempt(found, previous) == found

\* mutant: the watched movies stay in the list
KeepWatchedIds(ms, watched) == ms

\* [m for m in movies if m.get("id") not in watched_ids]
RemoveWatchedIds(ms, watched) == SelectSeq(ms, LAMBDA m : m.id \notin watched)

\* mutant: the loop has no break, it ends with the list of attempts
LadderEndsAtLast(ms, k, n) == k = n

\* whether the for loop over attempts ends after iteration k of n, which
\* left ms: by the break, or because the attempts are used up
LadderEnds(ms, k, n) == Len(ms) >= MIN_RESULTS_TARGET \/ k = n

\* mutant: results_note is set on the break only
NoteOnBreakOnly(ms, note, current) ==
    IF Len(ms) >= MIN_RESULTS_TARGET THEN note ELSE current

\* results_note after an iteration: both branches assign note
NoteAfterAttempt(ms, note, current) == note

\* safe is True / False / None to "safe" / "unsafe" / "unknown"
DogSafe(safe) ==
    CASE safe = "True" -> "safe"
      [] safe = "False" -> "unsafe"
      [] OTHER -> "unknown"

\* mutant: every movie is checked
CheckedSliceAll(ms) == ms

\* movies[:MAX_DTDD_CHECK]
CheckedSlice(ms) == Slice(ms, 1, MAX_DTDD_CHECK)

\* movies[MAX_DTDD_CHECK:]
TailSlice(ms) == Slice(ms, MAX_DTDD_CHECK + 1, Len(ms))

\* the loop over movies[:MAX_DTDD_CHECK].  get_imdb_id is called first and
\* its exception caught, so it only decides which search the annotator
\* makes; answer[m.id] is what is_animal_safe_v1 then does, and its
\* exception leaves the loop and the handler.
RECURSIVE AnnotateLoop(_, _, _, _, _, _)
AnnotateLoop(ms, answer, watched, flag, checked, called) ==
    IF ms = <<>>
    THEN [raised |-> FALSE, checked |-> checked, called |-> called]
    ELSE LET m == Head(ms)
             safe == answer[m.id]
             marked == [m EXCEPT !.is_watched = m.id \in watched,
                                 !.dtdd_dog_safe = DogSafe(safe)]
         IN IF safe = "raise"
            THEN [raised |-> TRUE, checked |-> checked,
                  called |-> Append(called, m.id)]
            ELSE AnnotateLoop(Tail(ms), answer, watched, flag,
                              IF flag /\ safe = "False" THEN checked
                              ELSE Append(checked, marked),
                              Append(called, m.id))

\* the loop over movies[MAX_DTDD_CHECK:]: setdefault and is_watched
AnnotateTail(ms, watched) ==
    [i \in 1..Len(ms) |->
        [ms[i] EXCEPT !.is_watched = ms[i].id \in watched,
                      !.dtdd_dog_safe =
                          IF ms[i].dtdd_dog_safe = "absent" THEN "unknown"
                          ELSE ms[i].dtdd_dog_safe]]

\* mutant: a movie whose credits lookup fails is dropped
KeepDespiteCastClosed(answer, exclude_set) ==
    ~answer.raised /\ answer.cast \cap exclude_set = {}

\* whether the exclusion loop keeps a movie: the lookup raised, or the cast
\* is disjoint from the excluded ids
KeepDespiteCast(answer, exclude_set) ==
    answer.raised \/ answer.cast \cap exclude_set = {}

\* the exclusion loop: movies with a falsy id are skipped without a lookup
ExcludeLoop(ms, answer, exclude_set) ==
    SelectSeq(ms, LAMBDA m :
                m.id # 0 /\ KeepDespiteCast(answer[m.id], exclude_set))

\* the ids get_movie_cast_ids is called for
CreditsLookups(ms) ==
    LET with_id == SelectSeq(ms, LAMBDA m : m.id # 0)
    IN [i \in 1..Len(with_id) |-> with_id[i].id]

-----------------------------------------------------------------------------
(* The inputs of the model *)

\* SpecDiscover: pages of up to two results; two different dicts carry id 1,
\* so that which occurrence is kept shows
DiscPageLens == {0, 1, 2}

DiscPagesArgs == {0, 1, 2, 3, 21}

DiscItems ==
    {TmdbMovie(1, "one", 70, 99, 9, 2020), TmdbMovie(1, "uno", 65, 9, 0, 0),
     TmdbMovie(2, "two", 70, 99, 9, 2020), NoIdMovie("none")}

DiscResponses ==
    {OkPage(r) : r \in UNION {[1..k -> DiscItems] : k \in DiscPageLens}}
        \cup {FailedPage}

\* an upstream with more pages than the cap, one movie on each
LongUpstream ==
    [p \in 1..(PAGES_CAP + 2) |-> OkPage(<<TmdbMovie(p, "long", 70, 99, 9, 2020)>>)]

\* SpecClassify: the topic entries of a payload
Str_DoesTheDogDie ==
    <<" ", "D", "o", "e", "s", " ", "t", "h", "e", " ", "D", "o", "g", " ",
      "D", "i", "e", "?", " ">>

Str_ADogDies == <<"A", " ", "d", "o", "g", " ", "d", "i", "e", "s">>

Str_DogDied == <<"t", "h", "e", " ", "d", "o", "g", " ", "d", "i", "e", "d">>

Str_CatDies == <<"a", " ", "c", "a", "t", " ", "d", "i", "e", "s">>

Topic(legacyId, doesName, name) ==
    [legacyId |-> legacyId, doesName |-> doesName, name |-> name]

\* four ways to be the dog-dies topic, and one other topic
ClassTopics ==
    {Topic(PyInt(25), <<>>, <<>>),
     Topic(PyInt(7), Str_DoesTheDogDie, <<>>),
     Topic(PyNone, <<>>, Str_ADogDies),
     Topic(PyNone, <<>>, Str_DogDied),
     Topic(PyInt(7), <<>>, Str_CatDies)}

ClassFlags == {PyNone, PyBool(TRUE), PyBool(FALSE), PyInt(0), PyInt(1), PyInt(2)}

ClassSums == {PyNone, PyInt(0), PyInt(1), PyInt(2), PyFloat(2)}

StatEntry(topic, isYes, yesSum, noSum) ==
    [topic |-> topic, isYes |-> isYes, yesSum |-> yesSum, noSum |-> noSum]

ClassEntries ==
    {StatEntry(t, f, y, n) :
       t \in ClassTopics, f \in ClassFlags, y \in ClassSums, n \in ClassSums}

\* what may stand before an entry in the list
ClassFirstEntries ==
    {StatEntry(Topic(PyInt(7), <<>>, Str_CatDies), PyBool(TRUE), PyInt(2), PyInt(0)),
     StatEntry(Topic(PyInt(25), <<>>, <<>>), PyNone, PyInt(2), PyInt(1)),
     StatEntry(Topic(PyInt(25), <<>>, <<>>), PyNone, PyInt(0), PyInt(0))}

MediaPayloads ==
    {NoMedia, Media(<<>>)}
        \cup {Media(<<e>>) : e \in ClassEntries}
        \cup {Media(<<f, e>>) : f \in ClassFirstEntries, e \in ClassEntries}

\* Spec: the catalog a search draws its pages from.  Ratings repeat, so
\* that scores tie.
CatalogIds == 1..MaxCatalogId

CatalogMovie(id) ==
    TmdbMovie(id, "movie", 60 + 5 * (id % 4), 99, 9, 2010 + (id % 10))

CatalogPage(ids) == [i \in 1..Len(ids) |-> CatalogMovie(ids[i])]

\* twelve movies, the first of them listed twice, and a result without id
PageA == CatalogPage(Ids(1, 12) \o <<1>>) \o <<NoIdMovie("movie")>>

\* the movies 10..MaxCatalogId: three of them are on PageA too
PageB == CatalogPage(Ids(10, MaxCatalogId))

\* what TMDB may answer to the pages of one attempt
Upstreams ==
    {<<>>, <<OkPage(PageA)>>, <<OkPage(PageB)>>,
     <<OkPage(PageA), OkPage(PageB)>>,
     <<FailedPage>>, <<OkPage(PageA), FailedPage>>}

\* no minimum, 7.0, 8.0 and 8.5
MinVotes == {NoneNum, Some(70), Some(80), Some(85)}

IncludeInputs == {<<>>, <<" a ", "b">>}

ExcludeInputs == {<<>>, <<" x", "  ">>}

PersonAnswers == {"found", "none", "raise"}

\* the table when a search arrives: empty, or with five movies marked
WatchedRows(ids) ==
    {WatchedMovie(i, USER_ID, ids[i], "movie") : i \in 1..Len(ids)}

SearchStores == {{}, WatchedRows(<<2, 5, 11, 20, 26>>)}

\* is_animal_safe_v1 per movie: the first movie of the catalog gets any
\* answer while the last is unsafe, or both are safe; the others are safe
DtddAnswers == {"True", "False", "None", "raise"}

DtddOracle(a, b) ==
    [id \in CatalogIds |->
        IF id = 1 THEN a ELSE IF id = MaxCatalogId THEN b ELSE "True"]

DtddOracles ==
    {DtddOracle(a, "False") : a \in DtddAnswers}
        \cup {DtddOracle("True", "True")}

\* get_movie_cast_ids per movie: the first movie gets any answer, or the
\* lookup of the last fails; of the others every fourth has person 201 in
\* its cast
CastAnswer(raised, cast) == [raised |-> raised, cast |-> cast]

CastAnswers ==
    {CastAnswer(TRUE, {}), CastAnswer(FALSE, {300}),
     CastAnswer(FALSE, {201, 300})}

CastOracle(a, b) ==
    [id \in CatalogIds |->
        IF id = 1 THEN a ELSE IF id = MaxCatalogId THEN b
        ELSE IF id % 4 = 0 THEN CastAnswer(FALSE, {201, 300})
        ELSE CastAnswer(FALSE, {300})]

CastOracles ==
    {CastOracle(a, CastAnswer(FALSE, {300})) : a \in CastAnswers}
        \cup {CastOracle(CastAnswer(FALSE, {300}), CastAnswer(TRUE, {}))}

NoRequest == [op |-> "none", tmdb_id |-> 0, title |-> ""]

\* SpecAnnotator: the key is set or not; a title and an IMDb id that are
\* normalised to their cache keys, and a blank title
ApiKeys == {"", "key"}

AnTitles == {<<" ", "A", " ">>, <<" ">>}

AnImdbIds == {<<"D", "1", " ">>}

AnItemIds == {7, 8}

\* the clock moves by the TTL, or by a second less
ClockSteps == {TTL_SECONDS - 1, TTL_SECONDS}

\* a DTDD request takes a second: the entry is written later than the
\* cache was read
NetSeconds == {1}

NetAnswer(ok, payload, took) == [ok |-> ok, payload |-> payload, took |-> took]

AnItems == <<DtddItem(7, 0, 1999), DtddItem(8, 1, 2020)>>

SearchNets ==
    {NetAnswer(TRUE, pl, t) :
        pl \in {EmptyObject, SearchPayload(AnItems)},
        t \in NetSeconds}
      \cup {NetAnswer(FALSE, NonePayload, t) : t \in NetSeconds}

MediaVotes(yesSum, noSum) ==
    Media(<<StatEntry(Topic(PyInt(LEGACY_ID), <<>>, <<>>), PyNone,
                      PyInt(yesSum), PyInt(noSum))>>)

\* the /media payload of a movie whose dog lives, or a failure
MediaNets ==
    {NetAnswer(TRUE, MediaVotes(0, 2), t) : t \in NetSeconds}
      \cup {NetAnswer(FALSE, NoMedia, t) : t \in NetSeconds}

\* the movies is_animal_safe_v1 is asked about: one that an item's tmdbId
\* names, one that an item's year matches, one without a title
AnMovies ==
    {TmdbMovie(1, <<"A">>, 70, 99, 9, 2020),
     TmdbMovie(2, <<"a", " ">>, 70, 99, 9, 1999),
     TmdbMovie(3, <<" ">>, 70, 99, 9, 0)}

NoOp ==
    [op |-> "none", key |-> <<>>, keyed |-> FALSE, raised |-> FALSE,
     payload |-> NonePayload, safe |-> "None", calls |-> <<>>]

LastOp(op, key, keyed, raised, payload, safe, calls) ==
    [op |-> op, key |-> key, keyed |-> keyed, raised |-> raised,
     payload |-> payload, safe |-> safe, calls |-> calls]

NoCall ==
    [min_vote |-> NoneNum, min_vote_count |-> 0, pages |-> 0,
     with_cast_csv |-> WithCastCsv(<<>>), upstream |-> <<>>, calls |-> <<>>]

-----------------------------------------------------------------------------
(* Each component at rest.  A specification runs one component and holds   *)
(* the others at rest.                                                     *)

DiscoverIdle ==
    /\ dm_pc = "idle"
    /\ dm_upstream = <<>>
    /\ dm_pages = 0
    /\ dm_out = <<>>
    /\ dm_calls = <<>>

\* no request to the watched endpoints in flight
RequestsIdle ==
    /\ w_pc = [p \in Procs |-> "idle"]
    /\ w_req = [p \in Procs |-> NoRequest]
    /\ w_exists = [p \in Procs |-> FALSE]

\* the table as create_all leaves it
StoreIdle ==
    /\ watched_movies = {}
    /\ RequestsIdle

SearchLocalsInit ==
    /\ include_ids = <<>>
    /\ exclude_ids = <<>>
    /\ with_cast_csv = WithCastCsv(<<>>)
    /\ person_found = [include |-> <<>>, exclude |-> <<>>]
    /\ watched_ids = {}
    /\ pages = 0
    /\ attempts = <<>>
    /\ attempt = 0
    /\ movies = <<>>
    /\ results_note = "None"
    /\ failed_call = "none"
    /\ attempts_run = <<>>
    /\ first_enough = 0
    /\ last_call = NoCall
    /\ fewer = FALSE
    /\ pre_annotation = <<>>
    /\ post_annotation = <<>>
    /\ dtdd = <<>>
    /\ dtdd_called = <<>>
    /\ credits = <<>>
    /\ credits_called = <<>>

SearchIdle ==
    /\ pc = "idle"
    /\ min_vote = NoneNum
    /\ include_actors = <<>>
    /\ exclude_actors = <<>>
    /\ no_animal_harm = FALSE
    /\ SearchLocalsInit

ClassifyIdle ==
    /\ cl_pc = "idle"
    /\ cl_media = NoMedia
    /\ cl_dog_dies = "None"
    /\ cl_safe = "None"

\* the module dtdd.py as its import leaves it: both caches empty
CachesEmpty ==
    /\ now = 0
    /\ ticks = 0
    /\ search_cache = <<>>
    /\ media_cache = <<>>
    /\ net_calls = 0
    /\ an_last = NoOp

AnnotatorIdle ==
    /\ DTDD_API_KEY = ""
    /\ CachesEmpty

-----------------------------------------------------------------------------
(* SpecDiscover: discover_movies_multi on every bounded upstream *)

InitDiscover ==
    /\ dm_pc = "call"
    /\ dm_upstream \in SeqsUpTo(DiscResponses, MaxDiscPages) \cup {LongUpstream}
    /\ dm_pages \in DiscPagesArgs
    /\ dm_out = <<>>
    /\ dm_calls = <<>>
    /\ StoreIdle
    /\ SearchIdle
    /\ ClassifyIdle
    /\ AnnotatorIdle

DiscoverCall ==
    /\ dm_pc = "call"
    /\ LET r == discover_movies_multi(dm_upstream, dm_pages) IN
        /\ dm_pc' = IF r.raised THEN "raised" ELSE "returned"
        /\ dm_out' = r.all_results
        /\ dm_calls' = r.calls
    /\ UNCHANGED <<dm_upstream, dm_pages>>

NextDiscover == DiscoverCall /\ UNCHANGED notDiscover

SpecDiscover == InitDiscover /\ [][NextDiscover]_vars

-----------------------------------------------------------------------------
(* SpecClassify: the classification of every bounded /media payload *)

InitClassify ==
    /\ cl_pc = "call"
    /\ cl_media \in MediaPayloads
    /\ cl_dog_dies = "None"
    /\ cl_safe = "None"
    /\ StoreIdle
    /\ SearchIdle
    /\ DiscoverIdle
    /\ AnnotatorIdle

\* dog_dies = dog_dies_from_media(media_payload) and the lines after it
Classify ==
    /\ cl_pc = "call"
    /\ cl_pc' = "done"
    /\ cl_dog_dies' = dog_dies_from_media(cl_media)
    /\ cl_safe' = SafeFromDogDies(dog_dies_from_media(cl_media))
    /\ UNCHANGED cl_media
    /\ UNCHANGED notClassify

NextClassify == Classify

SpecClassify == InitClassify /\ [][NextClassify]_vars

-----------------------------------------------------------------------------
(* SpecAnnotator: calls into dtdd.py, one after another, over the life of  *)
(* the process, while the clock moves                                      *)

InitAnnotator ==
    /\ DTDD_API_KEY \in ApiKeys
    /\ CachesEmpty
    /\ StoreIdle
    /\ SearchIdle
    /\ DiscoverIdle
    /\ ClassifyIdle

\* time passes between two calls
Tick ==
    /\ ticks < MaxTicks
    /\ \E d \in ClockSteps : now' = now + d
    /\ ticks' = ticks + 1
    /\ UNCHANGED <<DTDD_API_KEY, search_cache, media_cache, net_calls, an_last>>
    /\ UNCHANGED notAnnotator

\* a call of dtdd_search
SearchByTitle ==
    /\ \E query \in AnTitles, net \in SearchNets :
         LET r == dtdd_search(DTDD_API_KEY, query, search_cache, now, net)
             q == Lower(StripStr(query))
         IN /\ net_calls + Len(r.calls) <= MaxNetCalls
            /\ search_cache' = r.cache
            /\ net_calls' = net_calls + Len(r.calls)
            /\ now' = r.clock
            /\ an_last' = LastOp("dtdd_search", q, q # <<>>, r.raised,
                                 r.payload, "None", r.calls)
    /\ UNCHANGED <<DTDD_API_KEY, ticks, media_cache>>
    /\ UNCHANGED notAnnotator

\* a call of dtdd_search_imdb
SearchByImdb ==
    /\ \E imdb_id \in AnImdbIds, net \in SearchNets :
         LET r == dtdd_search_imdb(DTDD_API_KEY, imdb_id, search_cache, now, net)
             cache_key == IMDB_PREFIX \o Lower(StripStr(imdb_id))
         IN /\ net_calls + Len(r.calls) <= MaxNetCalls
            /\ search_cache' = r.cache
            /\ net_calls' = net_calls + Len(r.calls)
            /\ now' = r.clock
            /\ an_last' = LastOp("dtdd_search_imdb", cache_key, TRUE, r.raised,
                                 r.payload, "None", r.calls)
    /\ UNCHANGED <<DTDD_API_KEY, ticks, media_cache>>
    /\ UNCHANGED notAnnotator

\* a call of dtdd_media
MediaById ==
    /\ \E item_id \in AnItemIds, net \in MediaNets :
         LET r == dtdd_media(DTDD_API_KEY, item_id, media_cache, now, net)
         IN /\ net_calls + Len(r.calls) <= MaxNetCalls
            /\ media_cache' = r.cache
            /\ net_calls' = net_calls + Len(r.calls)
            /\ now' = r.clock
            /\ an_last' = LastOp("dtdd_media", item_id, TRUE, r.raised,
                                 r.payload, "None", r.calls)
    /\ UNCHANGED <<DTDD_API_KEY, ticks, search_cache>>
    /\ UNCHANGED notAnnotator

\* a call of is_animal_safe_v1, as the search and the detail page make it
ClassifyMovie ==
    /\ \E tmdb_movie \in AnMovies, imdb_id \in AnImdbIds \cup {<<>>},
          snet \in SearchNets, mnet \in MediaNets :
         LET r == is_animal_safe_v1(DTDD_API_KEY, tmdb_movie, imdb_id,
                                    search_cache, media_cache, now, snet, mnet)
         IN /\ net_calls + Len(r.calls) <= MaxNetCalls
            /\ search_cache' = r.search_cache
            /\ media_cache' = r.media_cache
            /\ net_calls' = net_calls + Len(r.calls)
            /\ now' = r.clock
            /\ an_last' = LastOp("is_animal_safe_v1", imdb_id, FALSE, r.raised,
                                 NonePayload, r.safe, r.calls)
    /\ UNCHANGED <<DTDD_API_KEY, ticks>>
    /\ UNCHANGED notAnnotator

NextAnnotator ==
    \/ Tick
    \/ SearchByTitle
    \/ SearchByImdb
    \/ MediaById
    \/ ClassifyMovie

SpecAnnotator == InitAnnotator /\ [][NextAnnotator]_vars

-----------------------------------------------------------------------------
(* SpecWatched, SpecWatchedSeq: the watched endpoints.  Each handler opens *)
(* its own session, so the table is shared by the requests in flight;      *)
(* FastAPI runs these def handlers on a thread pool.                       *)

InitWatched ==
    StoreIdle /\ DiscoverIdle /\ SearchIdle /\ ClassifyIdle /\ AnnotatorIdle

\* mark_watched, up to the result of the existence query
MarkWatchedQuery(p, tmdb_id, title) ==
    /\ w_pc[p] = "idle"
    /\ w_pc' = [w_pc EXCEPT ![p] = "queried"]
    /\ w_req' = [w_req EXCEPT
                    ![p] = [op |-> "mark", tmdb_id |-> tmdb_id, title |-> title]]
    /\ w_exists' = [w_exists EXCEPT
                       ![p] = RowsOf(watched_movies, tmdb_id) # {}]
    /\ UNCHANGED watched_movies

\* mark_watched, from the test of exists to the response
MarkWatchedCommit(p) ==
    /\ w_pc[p] = "queried"
    /\ w_exists[p] \/ NextRowId(watched_movies) <= MaxRowId
    /\ watched_movies' = InsertIfNew(watched_movies, w_req[p], w_exists[p])
    /\ w_pc' = [w_pc EXCEPT ![p] = "done"]
    /\ UNCHANGED <<w_req, w_exists>>

\* remove_watched: one DELETE statement and its commit, then the response
RemoveWatched(p, tmdb_id, title) ==
    /\ w_pc[p] = "idle"
    /\ watched_movies' = DeleteRows(watched_movies, tmdb_id)
    /\ w_pc' = [w_pc EXCEPT ![p] = "done"]
    /\ w_req' = [w_req EXCEPT
                    ![p] = [op |-> "unmark", tmdb_id |-> tmdb_id,
                            title |-> title]]
    /\ UNCHANGED w_exists

\* the response is sent and the slot takes the next request
RequestDone(p) ==
    /\ w_pc[p] = "done"
    /\ w_pc' = [w_pc EXCEPT ![p] = "idle"]
    /\ w_req' = [w_req EXCEPT ![p] = NoRequest]
    /\ w_exists' = [w_exists EXCEPT ![p] = FALSE]
    /\ UNCHANGED watched_movies

\* the steps of the request in slot p
MarkQueryStep(p) ==
    /\ \E tmdb_id \in WatchIds, title \in WatchTitles :
          MarkWatchedQuery(p, tmdb_id, title)
    /\ UNCHANGED notStore

MarkCommitStep(p) ==
    /\ MarkWatchedCommit(p)
    /\ UNCHANGED notStore

RemoveStep(p) ==
    /\ \E tmdb_id \in WatchIds, title \in WatchTitles :
          RemoveWatched(p, tmdb_id, title)
    /\ UNCHANGED notStore

DoneStep(p) ==
    /\ RequestDone(p)
    /\ UNCHANGED notStore

\* no other request is in flight
Alone(p) == \A q \in Procs \ {p} : w_pc[q] = "idle"

\* requests overlap freely
NextWatched ==
    \/ \E p \in Procs : MarkQueryStep(p)
    \/ \E p \in Procs : MarkCommitStep(p)
    \/ \E p \in Procs : RemoveStep(p)
    \/ \E p \in Procs : DoneStep(p)

\* one request at a time: a request starts only when no other is in flight
NextWatchedSeq ==
    \/ \E p \in Procs : Alone(p) /\ MarkQueryStep(p)
    \/ \E p \in Procs : Alone(p) /\ MarkCommitStep(p)
    \/ \E p \in Procs : Alone(p) /\ RemoveStep(p)
    \/ \E p \in Procs : Alone(p) /\ DoneStep(p)

SpecWatched == InitWatched /\ [][NextWatched]_vars

SpecWatchedSeq == InitWatched /\ [][NextWatchedSeq]_vars

-----------------------------------------------------------------------------
(* Spec: one request to /search, from its form to its response *)

Init ==
    /\ pc = "start"
    /\ min_vote \in MinVotes
    /\ include_actors \in IncludeInputs
    /\ exclude_actors \in ExcludeInputs
    /\ no_animal_harm \in BOOLEAN
    /\ SearchLocalsInit
    /\ watched_movies \in SearchStores
    /\ RequestsIdle
    /\ DiscoverIdle
    /\ ClassifyIdle
    /\ AnnotatorIdle

\* lines 184-240: the names are resolved, the watched ids read, the page
\* budget and the attempts set
SearchBegin ==
    /\ pc = "start"
    /\ LET include_names == split_names(include_actors)
           exclude_names == split_names(exclude_actors)
       IN \E ia \in [1..Len(include_names) -> PersonAnswers],
             ea \in [1..Len(exclude_names) -> PersonAnswers] :
            LET inc == ResolveNames(include_names, ia)
                exc == ResolveNames(exclude_names, ea)
            IN /\ person_found' = [include |-> ia, exclude |-> ea]
               /\ IF inc.raised \/ exc.raised
                  THEN /\ pc' = "error"
                       /\ failed_call' = "search_person_id"
                       /\ UNCHANGED <<include_ids, exclude_ids,
                                      with_cast_csv, watched_ids, pages,
                                      attempts>>
                  ELSE /\ pc' = "ladder"
                       /\ include_ids' = inc.ids
                       /\ exclude_ids' = exc.ids
                       /\ with_cast_csv' = WithCastCsv(inc.ids)
                       /\ watched_ids' = WatchedIds(watched_movies)
                       /\ pages' = PagesFor(min_vote)
                       /\ attempts' = AttemptsFor(min_vote)
                       /\ UNCHANGED failed_call
    /\ UNCHANGED <<formVars, attempt, movies, results_note, attempts_run,
                   first_enough, last_call, fewer, pre_annotation,
                   post_annotation, dtdd, dtdd_called, credits, credits_called>>
    /\ UNCHANGED notSearch

\* lines 242-264: one iteration of the loop over attempts
LadderAttempt ==
    /\ pc = "ladder"
    /\ \E upstream \in Upstreams :
         LET k == attempt + 1
             a == attempts[k]
             r == discover_movies_multi(upstream, pages)
             ms == RemoveWatchedIds(MoviesAfterAttempt(r.all_results, movies),
                                    watched_ids)
             ends == LadderEnds(ms, k, Len(attempts))
         IN /\ attempt' = k
            /\ attempts_run' = Append(attempts_run, k)
            /\ last_call' = [min_vote |-> a.mv, min_vote_count |-> a.mvc,
                             pages |-> pages, with_cast_csv |-> with_cast_csv,
                             upstream |-> upstream, calls |-> r.calls]
            /\ IF r.raised
               THEN /\ pc' = "error"
                    /\ failed_call' = "discover_movies"
                    /\ UNCHANGED <<movies, results_note, first_enough,
                                   fewer, pre_annotation>>
               ELSE /\ pc' = IF ends THEN "annotate" ELSE "ladder"
                    /\ movies' = ms
                    /\ fewer' = (Len(ms) < Len(movies))
                    /\ results_note' = NoteAfterAttempt(ms, a.note, results_note)
                    /\ first_enough' =
                          IF first_enough = 0 /\ Len(ms) >= MIN_RESULTS_TARGET
                          THEN k ELSE first_enough
                    /\ pre_annotation' = IF ends THEN ms ELSE pre_annotation
                    /\ UNCHANGED failed_call
    /\ UNCHANGED <<formVars, include_ids, exclude_ids, with_cast_csv,
                   person_found,
                   watched_ids, pages, attempts, post_annotation, dtdd,
                   dtdd_called, credits, credits_called>>
    /\ UNCHANGED notSearch

\* lines 266-300: the first MAX_DTDD_CHECK movies are annotated and, under
\* the flag, filtered; the others are marked unknown
Annotate ==
    /\ pc = "annotate"
    /\ \E answer \in DtddOracles :
         LET r == AnnotateLoop(CheckedSlice(movies), answer, watched_ids,
                               no_animal_harm, <<>>, <<>>)
             out == r.checked \o AnnotateTail(TailSlice(movies), watched_ids)
         IN /\ dtdd' = answer
            /\ dtdd_called' = r.called
            /\ IF r.raised
               THEN /\ pc' = "error"
                    /\ failed_call' = "is_animal_safe_v1"
                    /\ UNCHANGED <<movies, post_annotation>>
               ELSE /\ pc' = "exclude"
                    /\ movies' = out
                    /\ post_annotation' = out
                    /\ UNCHANGED failed_call
    /\ UNCHANGED <<formVars, include_ids, exclude_ids, with_cast_csv,
                   person_found,
                   watched_ids, pages, attempts, attempt, results_note,
                   attempts_run, first_enough, last_call, fewer,
                   pre_annotation, credits, credits_called>>
    /\ UNCHANGED notSearch

\* lines 302-329: the excluded actors' movies go, the rest is ranked and
\* rendered with results_note
ExcludeAndRank ==
    /\ pc = "exclude"
    /\ IF exclude_ids # <<>>
       THEN \E answer \in CastOracles :
               /\ credits' = answer
               /\ credits_called' = CreditsLookups(movies)
               /\ movies' = rank_movies(
                      ExcludeLoop(movies, answer, Range(exclude_ids)))
       ELSE /\ movies' = rank_movies(movies)
            /\ UNCHANGED <<credits, credits_called>>
    /\ pc' = "done"
    /\ UNCHANGED <<formVars, include_ids, exclude_ids, with_cast_csv,
                   person_found,
                   watched_ids, pages, attempts, attempt, results_note,
                   failed_call, attempts_run, first_enough, last_call,
                   fewer, pre_annotation, post_annotation, dtdd,
                   dtdd_called>>
    /\ UNCHANGED notSearch

Next ==
    \/ SearchBegin
    \/ LadderAttempt
    \/ Annotate
    \/ ExcludeAndRank

Spec == Init /\ [][Next]_vars

-----------------------------------------------------------------------------
(* The claims *)

\* the loop over attempts has ended and the handler went on
LadderOver ==
    \/ pc \in {"annotate", "exclude", "done"}
    \/ pc = "error" /\ failed_call = "is_animal_safe_v1"

\* C1: the attempts are executed in ladder order; once one of them gives at
\* least MIN_RESULTS_TARGET movies after the watched ids are removed, no
\* later one is executed; and if none does, every configured attempt is
\* executed.
TheoremC1 ==
    /\ attempts_run = Ids(1, attempt)
    /\ first_enough # 0 => attempts_run = Ids(1, first_enough)
    /\ (LadderOver /\ first_enough = 0) => attempts_run = Ids(1, Len(attempts))

\* the second of three attempts reached the target and the ladder stopped
WitnessC1 ==
    /\ pc = "annotate"
    /\ Len(attempts) = 3
    /\ first_enough = 2
    /\ attempts_run = <<1, 2>>
    /\ Len(movies) >= MIN_RESULTS_TARGET

\* C2: an exception of the safety classification of one of the first
\* MAX_DTDD_CHECK movies does not end the request: the movie gets status
\* unknown and the request goes on to its result list.
ClaimC2 ==
    \A k \in 1..Len(dtdd_called) :
        dtdd[dtdd_called[k]] = "raise" =>
            /\ pc \in {"exclude", "done"}
            /\ \E i \in 1..Len(post_annotation) :
                  /\ post_annotation[i].id = dtdd_called[k]
                  /\ post_annotation[i].dtdd_dog_safe = "unknown"

\* C3: an exception of the person search for an included or excluded name
\* never ends the request.
ClaimC3 == ~(pc = "error" /\ failed_call = "search_person_id")

\* the pages discover_movies_multi consumed, concatenated
RECURSIVE FlatPages(_, _)
FlatPages(upstream, calls) ==
    IF calls = <<>> THEN <<>>
    ELSE Response(upstream, Head(calls)).results
            \o FlatPages(upstream, Tail(calls))

\* position k of flat holds the first occurrence of an int id
FirstOccurrence(flat, k) ==
    /\ flat[k].int_id
    /\ \A j \in 1..(k - 1) : ~(flat[j].int_id /\ flat[j].id = flat[k].id)

\* C4: the list returned by discover_movies_multi holds no catalog id twice,
\* and is exactly the first occurrences of the ids of the pages it read, in
\* page order and then in-page order.
TheoremC4 ==
    dm_pc = "returned" =>
        LET flat == FlatPages(dm_upstream, dm_calls)
            first == SelectSeq([k \in 1..Len(flat) |-> k],
                               LAMBDA k : FirstOccurrence(flat, k))
        IN /\ \A i, j \in 1..Len(dm_out) :
                  i # j => dm_out[i].id # dm_out[j].id
           /\ dm_out = [i \in 1..Len(first) |-> flat[first[i]]]

\* a later page repeats an id under another dict, and the first one is kept
WitnessC4 ==
    /\ dm_pc = "returned"
    /\ Len(dm_upstream) >= 2
    /\ Len(dm_calls) >= 2
    /\ Len(dm_out) = 2
    /\ dm_out[1].title = "uno"
    /\ \E k \in 1..Len(dm_upstream[2].results) :
          dm_upstream[2].results[k].title = "one"

\* C5: is_animal_safe_v1 is called for the first MAX_DTDD_CHECK movies of
\* the pre-annotation list at most, in order; every movie behind them is in
\* the output of the annotation step, with status unknown, whatever the
\* annotator answers for it and whatever the no-animal-harm flag.
TheoremC5 ==
    /\ Len(dtdd_called) <= MAX_DTDD_CHECK
    /\ \A k \in 1..Len(dtdd_called) : dtdd_called[k] = pre_annotation[k].id
    /\ pc \in {"exclude", "done"} =>
          \A i \in (MAX_DTDD_CHECK + 1)..Len(pre_annotation) :
              /\ \E j \in 1..Len(post_annotation) :
                    post_annotation[j].id = pre_annotation[i].id
              /\ \A j \in 1..Len(post_annotation) :
                    post_annotation[j].id = pre_annotation[i].id
                        => post_annotation[j].dtdd_dog_safe = "unknown"

\* under the flag, a checked movie was dropped as unsafe while the last
\* movie, which the annotator calls unsafe too, is beyond the bound and kept
WitnessC5 ==
    /\ pc = "exclude"
    /\ no_animal_harm
    /\ Len(pre_annotation) > MAX_DTDD_CHECK
    /\ Len(post_annotation) < Len(pre_annotation)
    /\ dtdd[pre_annotation[Len(pre_annotation)].id] = "False"
    /\ post_annotation[Len(post_annotation)].dtdd_dog_safe = "unknown"

\* the ids of a list of movies
IdsOf(ms) == {ms[i].id : i \in 1..Len(ms)}

\* C6: with an excluded id resolved, the final list holds exactly the movies
\* left by the annotation step whose cast lookup failed or gave a cast
\* disjoint from the excluded ids, each once; none of its movies has a cast
\* with an excluded id.
TheoremC6 ==
    (pc = "done" /\ exclude_ids # <<>>) =>
        /\ IdsOf(movies) =
              {m.id : m \in {x \in Range(post_annotation) :
                  \/ credits[x.id].raised
                  \/ credits[x.id].cast \cap Range(exclude_ids) = {}}}
        /\ Cardinality(IdsOf(movies)) = Len(movies)
        /\ credits_called = [i \in 1..Len(post_annotation) |->
                                post_annotation[i].id]
        /\ \A i \in 1..Len(movies) :
              credits[movies[i].id].raised
                  \/ credits[movies[i].id].cast \cap Range(exclude_ids) = {}

\* a movie whose lookup failed is in the result, a movie with the excluded
\* actor in its cast is not
WitnessC6 ==
    /\ pc = "done"
    /\ exclude_ids = <<201>>
    /\ \E i \in 1..Len(movies) : credits[movies[i].id].raised
    /\ \E i \in 1..Len(post_annotation) :
          /\ 201 \in credits[post_annotation[i].id].cast
          /\ post_annotation[i].id \notin IdsOf(movies)

\* C7: the note of the response is the note of the last attempt executed,
\* whether it reached the target or not, and it is absent when the first
\* attempt reached the target.
TheoremC7 ==
    pc \in {"annotate", "exclude", "done"} =>
        /\ results_note = attempts[attempts_run[Len(attempts_run)]].note
        /\ first_enough = 1 => results_note = "None"
        /\ Len(attempts_run) > 1 => results_note # "None"

\* the ladder stopped after attempt 2, which gave 22 movies, with its note
WitnessC7 ==
    /\ pc = "annotate"
    /\ attempts_run = <<1, 2>>
    /\ Len(movies) >= MIN_RESULTS_TARGET
    /\ Len(movies) <= MIN_RESULTS_TARGET + 3
    /\ results_note = "Too few results - lowered minimum review count to 100."

Marked(tmdb_id) == RowsOf(watched_movies, tmdb_id) # {}

\* C8: with requests executed one after another, a mark-watched request for
\* a movie already marked changes nothing in the store, and after any
\* mark-watched request the movie has one entry; an unmark request for a
\* movie that is not marked changes nothing in the store and reaches its
\* response.
TheoremC8 ==
    [][\A p \in Procs :
          /\ (w_pc[p] = "queried" /\ w_pc'[p] = "done"
                /\ Marked(w_req[p].tmdb_id))
                => watched_movies' = watched_movies
          /\ (w_pc[p] = "queried" /\ w_pc'[p] = "done")
                => Cardinality(RowsOf(watched_movies', w_req[p].tmdb_id)) = 1
          /\ (w_pc[p] = "idle" /\ w_pc'[p] = "done"
                /\ ~Marked(w_req'[p].tmdb_id))
                => (watched_movies' = watched_movies
                      /\ w_req'[p].op = "unmark")]_vars

\* a second mark of a marked movie has completed, under another title, and
\* the store still holds the one row of the first mark
WitnessC8 ==
    \E p \in Procs :
        /\ w_pc[p] = "done"
        /\ w_req[p].op = "mark"
        /\ w_exists[p]
        /\ \E r \in watched_movies :
              /\ RowsOf(watched_movies, w_req[p].tmdb_id) = {r}
              /\ r.title # w_req[p].title

\* C9: the watched store holds at most one entry per (user id, catalog
\* movie id) pair, also while mark-watched requests overlap.
ClaimC9 ==
    \A tmdb_id \in WatchIds :
        Cardinality(RowsOf(watched_movies, tmdb_id)) <= 1

\* the entry dog_dies_from_media decides by: the first of the dog-dies topic
MatchedEntries(stats) ==
    {i \in 1..Len(stats) :
        /\ IsDogDiesTopic(stats[i].topic)
        /\ \A j \in 1..(i - 1) : ~IsDogDiesTopic(stats[j].topic)}

\* both totals are numbers, and they differ
UnequalTotals(e) ==
    /\ e.yesSum.t # "NoneType"
    /\ e.noSum.t # "NoneType"
    /\ e.yesSum.v # e.noSum.v

\* C10 as claimed: whenever the matched entry has unequal vote totals, the
\* classification is SAFE iff the no-votes exceed the yes-votes, and UNSAFE
\* otherwise.
ClaimC10 ==
    (cl_pc = "done" /\ cl_media.present) =>
        \A i \in MatchedEntries(cl_media.stats) :
            LET e == cl_media.stats[i] IN
            UnequalTotals(e) =>
                cl_safe = (IF e.noSum.v > e.yesSum.v THEN "True" ELSE "False")

\* C10 as amended: whenever the matched entry has no bool or int isYes and
\* its vote totals are ints and unequal, the classification is SAFE iff the
\* no-votes exceed the yes-votes, and UNSAFE otherwise.
TheoremC10 ==
    (cl_pc = "done" /\ cl_media.present) =>
        \A i \in MatchedEntries(cl_media.stats) :
            LET e == cl_media.stats[i] IN
            (~IsInt(e.isYes) /\ IsInt(e.yesSum) /\ IsInt(e.noSum)
                /\ UnequalTotals(e)) =>
                cl_safe = (IF e.noSum.v > e.yesSum.v THEN "True" ELSE "False")

\* the second entry of the list is the matched one, by its name; it has no
\* flag and more no-votes than yes-votes, and the movie is classified safe
WitnessC10 ==
    /\ cl_pc = "done"
    /\ Len(cl_media.stats) = 2
    /\ MatchedEntries(cl_media.stats) = {2}
    /\ cl_media.stats[2].topic.name = Str_DogDied
    /\ cl_media.stats[2].isYes = PyNone
    /\ cl_media.stats[2].yesSum = PyInt(1)
    /\ cl_media.stats[2].noSum = PyInt(2)
    /\ cl_safe = "True"

\* the entry is_yes is read from carries a bool, or the int 0 or 1
ExplicitFlag(e) == IsInt(e.isYes) /\ e.isYes.v \in {0, 1}

\* C11: when the matched entry carries an explicit isYes (a bool, or the int
\* 0 or 1), the classification follows it whatever the vote totals are:
\* true or 1 is UNSAFE, false or 0 is SAFE.
TheoremC11 ==
    (cl_pc = "done" /\ cl_media.present) =>
        \A i \in MatchedEntries(cl_media.stats) :
            LET e == cl_media.stats[i] IN
            ExplicitFlag(e) =>
                /\ cl_dog_dies = (IF e.isYes.v = 1 THEN "True" ELSE "False")
                /\ cl_safe = (IF e.isYes.v = 1 THEN "False" ELSE "True")

\* isYes is the int 1 while every vote says no, and the movie is unsafe
WitnessC11 ==
    /\ cl_pc = "done"
    /\ Len(cl_media.stats) = 1
    /\ MatchedEntries(cl_media.stats) = {1}
    /\ cl_media.stats[1].isYes = PyInt(1)
    /\ cl_media.stats[1].yesSum = PyInt(0)
    /\ cl_media.stats[1].noSum = PyInt(2)
    /\ cl_safe = "False"

\* no isYes, and the totals give no signal: both are zero, or one is missing
NoSignal(e) ==
    /\ e.isYes = PyNone
    /\ \/ (e.yesSum = PyInt(0) /\ e.noSum = PyInt(0))
       \/ e.yesSum = PyNone
       \/ e.noSum = PyNone

\* C12: when the matched entry has no isYes and its two vote totals are both
\* zero, or one of them is missing, the classification is UNKNOWN.
TheoremC12 ==
    (cl_pc = "done" /\ cl_media.present) =>
        \A i \in MatchedEntries(cl_media.stats) :
            NoSignal(cl_media.stats[i]) =>
                (cl_dog_dies = "None" /\ cl_safe = "None")

\* the matched entry has no flag and zero votes on both sides; the entry
\* before it, of another topic, does not decide
WitnessC12 ==
    /\ cl_pc = "done"
    /\ Len(cl_media.stats) = 2
    /\ MatchedEntries(cl_media.stats) = {2}
    /\ cl_media.stats[2].isYes = PyNone
    /\ cl_media.stats[2].yesSum = PyInt(0)
    /\ cl_media.stats[2].noSum = PyInt(0)
    /\ cl_safe = "None"

\* C13: with the DTDD api key empty, every call into dtdd.py returns None
\* (is_animal_safe_v1: UNKNOWN) without raising, no request is sent to DTDD
\* and both caches stay as they were at import: empty.
TheoremC13 ==
    DTDD_API_KEY = "" =>
        /\ net_calls = 0
        /\ an_last.calls = <<>>
        /\ DOMAIN search_cache = {}
        /\ DOMAIN media_cache = {}
        /\ ~an_last.raised
        /\ an_last.safe = "None"
        /\ an_last.op \in {"dtdd_search", "dtdd_search_imdb"}
              => an_last.payload = NonePayload
        /\ an_last.op = "dtdd_media" => an_last.payload = NoMedia

\* is_animal_safe_v1 was called without a key, with an IMDb id, after time
\* has passed, and gave UNKNOWN
WitnessC13 ==
    /\ DTDD_API_KEY = ""
    /\ an_last.op = "is_animal_safe_v1"
    /\ an_last.key # <<>>
    /\ now > 0
    /\ an_last.safe = "None"

\* the list rank_movies is called with at line 324: the annotated movies,
\* less those the exclusion loop dropped
Unranked ==
    IF exclude_ids # <<>>
    THEN ExcludeLoop(post_annotation, credits, Range(exclude_ids))
    ELSE post_annotation

\* the position of a movie in the list rank_movies was called with
PositionIn(ms, m) == CHOOSE i \in 1..Len(ms) : ms[i] = m

\* C14: the list rank_movies returns is a permutation of its input, in
\* descending order of score, and two movies of one score stand in it in
\* the order they had in the input.
TheoremC14 ==
    pc = "done" =>
        /\ Len(movies) = Len(Unranked)
        /\ \A m \in Range(Unranked) :
              Cardinality({i \in 1..Len(movies) : movies[i] = m})
                  = Cardinality({i \in 1..Len(Unranked) : Unranked[i] = m})
        /\ \A i, j \in 1..Len(movies) :
              i < j =>
                 /\ score(movies[i]) >= score(movies[j])
                 /\ score(movies[i]) = score(movies[j]) =>
                       PositionIn(Unranked, movies[i])
                           < PositionIn(Unranked, movies[j])

\* ranking changed the order of the list, and two movies of one score stand
\* next to each other in the result
WitnessC14 ==
    /\ pc = "done"
    /\ movies # Unranked
    /\ \E i \in 1..(Len(movies) - 1) :
          /\ score(movies[i]) = score(movies[i + 1])
          /\ movies[i].id < movies[i + 1].id

CachedCalls == {"dtdd_search", "dtdd_search_imdb", "dtdd_media"}

\* the cache a cached call works on
CacheOf(op, sc, mc) == IF op = "dtdd_media" THEN mc ELSE sc

\* the step is a call of one of the three cached calls, with a key set and
\* an argument that gives a cache key
CachedLookup ==
    /\ ticks' = ticks
    /\ DTDD_API_KEY # ""
    /\ an_last'.op \in CachedCalls
    /\ an_last'.keyed

\* C15: a lookup of a key whose entry was written less than 7 days ago
\* returns the cached payload, sends no request and leaves the caches; a
\* lookup of a key with no entry, or with an entry written 7 days ago or
\* more, sends exactly one request, for that key, and when it is answered
\* the entry of the key becomes (time of the write, new payload) and no
\* other entry changes.  So a request for a key is sent only when the
\* last answered request for it was written at least 7 days before.
TheoremC15 ==
    [][CachedLookup =>
         LET op == an_last'.op
             k == an_last'.key
             before == CacheOf(op, search_cache, media_cache)
             after == CacheOf(op, search_cache', media_cache')
         IN /\ CacheOf(op, media_cache', search_cache')
                  = CacheOf(op, media_cache, search_cache)
            /\ IF k \in DOMAIN before /\ now - before[k].ts < 7 * 24 * 60 * 60
               THEN /\ net_calls' = net_calls
                    /\ an_last'.calls = <<>>
                    /\ ~an_last'.raised
                    /\ an_last'.payload = before[k].payload
                    /\ after = before
               ELSE /\ net_calls' = net_calls + 1
                    /\ Len(an_last'.calls) = 1
                    /\ an_last'.calls[1].key = k
                    /\ ~an_last'.raised =>
                          /\ DOMAIN after = DOMAIN before \cup {k}
                          /\ after[k] = [ts |-> now', payload |-> an_last'.payload]
                          /\ \A j \in DOMAIN before \ {k} : after[j] = before[j]
      ]_vars

\* a title was searched, the clock moved by a second less than 7 days, and
\* the second search of the title was answered from the cache: one request
WitnessC15 ==
    /\ an_last.op = "dtdd_search"
    /\ an_last.keyed
    /\ an_last.calls = <<>>
    /\ net_calls = 1
    /\ an_last.key \in DOMAIN search_cache
    /\ now - search_cache[an_last.key].ts = TTL_SECONDS - 1
    /\ an_last.payload = search_cache[an_last.key].payload

\* C16: when a page request of discover_movies_multi fails during an
\* attempt, the search ends with that error: the failed page was requested
\* once and is the last page requested, the attempt is the last attempt
\* run, and no annotation, exclusion or ranking was done.  And a failed
\* page request always ends the search so.
TheoremC16 ==
    LET c == last_call.calls
        n == Len(c)
        ended == pc = "error" /\ failed_call = "discover_movies"
    IN /\ (\E p \in 1..n : ~Response(last_call.upstream, c[p]).ok) => ended
       /\ ended =>
            /\ n >= 1
            /\ c = Ids(1, n)
            /\ ~Response(last_call.upstream, n).ok
            /\ \A p \in 1..(n - 1) : Response(last_call.upstream, p).ok
            /\ attempts_run = Ids(1, attempt)
            /\ dtdd_called = <<>>
            /\ credits_called = <<>>
            /\ pre_annotation = <<>>
            /\ post_annotation = <<>>
            /\ \A i \in 1..Len(movies) : movies[i].dtdd_dog_safe = "absent"

\* the second page of the second attempt failed, after a first attempt that
\* had left movies, too few
WitnessC16 ==
    /\ pc = "error"
    /\ failed_call = "discover_movies"
    /\ attempts_run = <<1, 2>>
    /\ last_call.calls = <<1, 2>>
    /\ movies # <<>>

\* the page count discover_movies_multi works with, as the claim states it
ClampedCount(n) == IF n < 1 THEN 1 ELSE IF n > 20 THEN 20 ELSE n

\* the page gave no results, or its request failed
EndsPaging(data) == ~data.ok \/ data.results = <<>>

\* C17: discover_movies_multi requests the pages 1, 2, ... in increasing
\* order, at most as many as the requested count clamped into 1..20; every
\* page before the last one requested gave results, and it stops short of
\* the clamped count only at a page without results, where it returns
\* without error, or at a page whose request failed.
TheoremC17 ==
    dm_pc # "call" =>
        LET n == Len(dm_calls)
            last == Response(dm_upstream, n)
        IN /\ n >= 1
           /\ n <= ClampedCount(dm_pages)
           /\ dm_calls = Ids(1, n)
           /\ \A p \in 1..(n - 1) : ~EndsPaging(Response(dm_upstream, p))
           /\ n < ClampedCount(dm_pages) => EndsPaging(last)
           /\ (dm_pc = "returned") = last.ok

\* 21 pages were asked of an upstream that has 22, and 20 were requested
WitnessC17 ==
    /\ dm_pc = "returned"
    /\ dm_pages > 20
    /\ Len(dm_upstream) > 20
    /\ Len(dm_calls) = 20
    /\ Len(dm_out) = 20

\* the ladder and the page budget of a request, as the claim states them
LadderOf(mv) ==
    << <<mv, 200>>, <<mv, 100>>, <<mv, 50>> >>
        \o (IF mv.present /\ mv.v >= 85
            THEN << <<Some(80), 100>>, <<Some(75), 100>> >>
            ELSE <<>>)

BudgetOf(mv) == IF mv.present /\ mv.v >= 80 THEN 10 ELSE 5

\* C18: the attempts of a search are (min_vote, 200), (min_vote, 100),
\* (min_vote, 50), followed by (8.0, 100) and (7.5, 100) exactly when
\* min_vote is given and at least 8.5; every discovery call of the request
\* is made with the rating and count of its attempt and with the same page
\* count: 10 when min_vote is given and at least 8.0, else 5.
TheoremC18 ==
    pc \in {"ladder", "annotate", "exclude", "done"}
          \/ (pc = "error" /\ failed_call # "search_person_id") =>
        /\ [i \in 1..Len(attempts) |-> <<attempts[i].mv, attempts[i].mvc>>]
              = LadderOf(min_vote)
        /\ pages = BudgetOf(min_vote)
        /\ attempt >= 1 =>
              /\ last_call.pages = BudgetOf(min_vote)
              /\ <<last_call.min_vote, last_call.min_vote_count>>
                    = LadderOf(min_vote)[attempt]

\* with min_vote 8.5 the fifth attempt, at 7.5 and 100 reviews, was run with
\* 10 pages
WitnessC18 ==
    /\ pc = "done"
    /\ min_vote = Some(85)
    /\ attempt = 5
    /\ last_call.min_vote = Some(75)
    /\ last_call.min_vote_count = 100
    /\ last_call.pages = 10

\* C19: no movie of the final list has its id in the watched ids read at
\* the start of the request, and each has is_watched false.
TheoremC19 ==
    pc = "done" =>
        \A i \in 1..Len(movies) :
            /\ movies[i].id \notin watched_ids
            /\ movies[i].is_watched = FALSE

\* the pages of the last attempt held watched movies, and the final list is
\* not empty
WitnessC19 ==
    /\ pc = "done"
    /\ movies # <<>>
    /\ Len(attempts_run) > 1
    /\ \E p \in 1..Len(last_call.upstream) :
          \E k \in 1..Len(last_call.upstream[p].results) :
              /\ last_call.upstream[p].results[k].int_id
              /\ last_call.upstream[p].results[k].id \in watched_ids

\* the ids of the results on the pages the last discovery call read
LastFound ==
    {m.id : m \in {x \in Range(FlatPages(last_call.upstream, last_call.calls)) :
                      x.int_id}}

\* C20: the final list holds only movies that the last attempt executed
\* found, each once; what earlier attempts found is not in it otherwise.
TheoremC20 ==
    pc = "done" =>
        /\ IdsOf(movies) \subseteq LastFound
        /\ Cardinality(IdsOf(movies)) = Len(movies)
        /\ Len(movies) <= Len(pre_annotation)
        /\ IdsOf(pre_annotation) = LastFound \ watched_ids

\* no attempt reached the target; the last one found fewer movies than the
\* one before it, and the final list is made of those alone
WitnessC20 ==
    /\ pc = "done"
    /\ first_enough = 0
    /\ Len(attempts_run) = Len(attempts)
    /\ fewer
    /\ movies # <<>>
    /\ Len(movies) = Cardinality(LastFound \ watched_ids)

\* the step is a call into dtdd.py that sent a request which failed
FailedRequest ==
    /\ ticks' = ticks
    /\ an_last'.op # "none"
    /\ \E i \in 1..Len(an_last'.calls) : ~an_last'.calls[i].ok

\* C21: when the request behind a cache lookup fails, the call raises and
\* both caches are as they were before it: no entry is added, and a stale
\* entry of the key keeps its payload and its timestamp.  Through
\* is_animal_safe_v1 the failure is raised too, and the failed request is
\* the last one it sent.
TheoremC21 ==
    [][FailedRequest =>
         /\ an_last'.raised
         /\ ~an_last'.calls[Len(an_last'.calls)].ok
         /\ an_last'.op \in CachedCalls =>
               /\ search_cache' = search_cache
               /\ media_cache' = media_cache
               /\ net_calls' = net_calls + 1
         /\ an_last'.op = "is_animal_safe_v1" =>
               /\ media_cache' = media_cache
               /\ Len(an_last'.calls) = 1 => search_cache' = search_cache
      ]_vars

\* the request for a media item whose entry is 7 days old or older has
\* failed, and the entry is still there with its old timestamp
WitnessC21 ==
    /\ an_last.op = "dtdd_media"
    /\ an_last.raised
    /\ an_last.calls # <<>>
    /\ an_last.key \in DOMAIN media_cache
    /\ now - media_cache[an_last.key].ts >= TTL_SECONDS
    /\ media_cache[an_last.key].payload # NoMedia

\* the ids of the names for which the person search gave an id
ResolvedIds(names, answers) ==
    {PersonId(names[i]) : i \in {j \in 1..Len(names) : answers[j] = "found"}}

IncludedResolved ==
    ResolvedIds(split_names(include_actors), person_found.include)

ExcludedResolved ==
    ResolvedIds(split_names(exclude_actors), person_found.exclude)

NoPersonSearchRaised ==
    /\ \A i \in 1..Len(person_found.include) : person_found.include[i] # "raise"
    /\ \A i \in 1..Len(person_found.exclude) : person_found.exclude[i] # "raise"

\* C22: the cast filter sent to discovery holds exactly the ids of the
\* included names that resolved; when names were given and none resolved,
\* discovery is called without a cast filter, the request does not fail for
\* it and what discovery found (less the watched movies) goes on to the
\* annotation; when no excluded name resolved, no cast is looked up.
TheoremC22 ==
    (pc # "start" /\ NoPersonSearchRaised) =>
        /\ failed_call # "search_person_id"
        /\ Range(include_ids) = IncludedResolved
        /\ Len(include_ids) = Cardinality(IncludedResolved)
        /\ attempt >= 1 =>
             /\ last_call.with_cast_csv.present = (IncludedResolved # {})
             /\ last_call.with_cast_csv.present =>
                    last_call.with_cast_csv.ids = include_ids
             /\ (IncludedResolved = {} /\ pc = "annotate") =>
                    IdsOf(movies) = LastFound \ watched_ids
        /\ ExcludedResolved = {} =>
             /\ exclude_ids = <<>>
             /\ credits_called = <<>>

\* names were given for both lists and none resolved: the request is done
\* with movies to show, discovery was called without a cast filter and no
\* cast was looked up
WitnessC22 ==
    /\ pc = "done"
    /\ split_names(include_actors) # <<>>
    /\ split_names(exclude_actors) # <<>>
    /\ NoPersonSearchRaised
    /\ IncludedResolved = {}
    /\ ExcludedResolved = {}
    /\ attempt >= 1
    /\ ~last_call.with_cast_csv.present
    /\ movies # <<>>
    /\ credits_called = <<>>

====
